---- MODULE Spec2Model ----
(***************************************************************************)
(* Model of auth_functional.py: the request fixture cache (middleware,     *)
(* descriptors, accessor, registry), the predicate combinators or_, and_,  *)
(* not_, and the guard decorators authentication and authorization.        *)
(***************************************************************************)
EXTENDS Integers, Sequences, FiniteSets, TLC

VARIABLES registry, typeAttrs, attached, calls, failed, lastFix, cond, lastCall

vars == <<registry, typeAttrs, attached, calls, failed, lastFix, cond, lastCall>>
fixVars == <<registry, typeAttrs, attached, calls, failed, lastFix>>
guardVars == <<cond, lastCall>>

(***************************************************************************)
(* Bounds                                                                  *)
(***************************************************************************)
NumRequests == 3
MaxCalls == 2
MaxConds == 2
MaxDepth == 2

(***************************************************************************)
(* Part 1: fixtures                                                        *)
(***************************************************************************)
Requests == 1..NumRequests
Names == {"user", "item"}
Factories == {"load_user", "load_item"}
None == "None"

\* type(request): every request the handler builds is of the same class.
ReqType(r) == "WSGIRequest"
Types == {ReqType(r) : r \in Requests}

\* hasattr(request, 'resolver_match'): request 1 was already dispatched.
HasResolverMatch(r) == r = 1
resolver_match(r) == [args |-> <<>>, kwargs |-> "pk=1"]
path_info(r) == IF r % 3 = 0 THEN "/missing/" ELSE "/item/1/"

\* RegexURLResolver(r'^/', urlconf).resolve(path): Resolver404 when no route.
resolve(path) ==
    IF path = "/item/1/"
    THEN [ok |-> TRUE, args |-> <<>>, kwargs |-> "pk=1"]
    ELSE [ok |-> FALSE, args |-> <<>>, kwargs |-> ""]

get_resolver_args_and_kwargs(r) ==
    IF HasResolverMatch(r)
    THEN [ok |-> TRUE, args |-> resolver_match(r).args, kwargs |-> resolver_match(r).kwargs]
    ELSE resolve(path_info(r))

\* A cached value: the object factory f returned when called for request `by`.
Absent == [f |-> None, args |-> <<>>, kwargs |-> "", by |-> 0]
FactoryValue(f, res, r) == [f |-> f, args |-> res.args, kwargs |-> res.kwargs, by |-> r]
EmptyDict == [n \in Names |-> Absent]

\* DictCacheDescriptor.__get__: the dict held by the descriptor on the class.
DictCacheDescriptor_get(attrs, r) == attrs[ReqType(r)].cache

\* Fixtures.get(name, default)
Fixtures_get(reg, n, default) == IF reg[n] = None THEN default ELSE reg[n]

\* The most recent failed access (request, name) not yet followed by another
\* access of that name on that request.
NoFailure == <<0, "">>

NoOp == [op |-> "init", r |-> 0, n |-> "", outcome |-> "", hit |-> FALSE,
         resolved |-> FALSE, invoked |-> FALSE, registered |-> FALSE, value |-> Absent]

FixInit ==
    /\ registry = [n \in Names |-> None]
    /\ typeAttrs = [t \in Types |-> [patched |-> FALSE, cache |-> EmptyDict]]
    /\ attached = {}
    /\ calls = [r \in Requests |-> [n \in Names |-> 0]]
    /\ failed = NoFailure
    /\ lastFix = NoOp

\* RequestFixtureMiddleware.process_request; the framework runs the hook once
\* per request, before anything reads request.fixtures.
process_request(r) ==
    /\ r \notin attached
    /\ typeAttrs' = [typeAttrs EXCEPT ![ReqType(r)] = [patched |-> TRUE, cache |-> EmptyDict]]
    /\ attached' = attached \cup {r}
    /\ lastFix' = [NoOp EXCEPT !.op = "process_request", !.r = r]
    /\ UNCHANGED <<registry, calls, failed, guardVars>>

\* Fixtures.register
register(n, f) ==
    /\ registry' = [registry EXCEPT ![n] = f]
    /\ lastFix' = [NoOp EXCEPT !.op = "register", !.n = n]
    /\ UNCHANGED <<typeAttrs, attached, calls, failed, guardVars>>

\* Fixtures.__getattr__
Fixtures_getattr(n) ==
    /\ lastFix' = [NoOp EXCEPT !.op = "registry_attr", !.n = n,
                     !.registered = (registry[n] # None),
                     !.outcome = IF registry[n] = None THEN "AttributeError" ELSE registry[n]]
    /\ UNCHANGED <<registry, typeAttrs, attached, calls, failed, guardVars>>

\* Fixtures.get called with a default
get(n, default) ==
    /\ lastFix' = [NoOp EXCEPT !.op = "registry_get", !.n = n,
                     !.registered = (registry[n] # None),
                     !.outcome = Fixtures_get(registry, n, default)]
    /\ UNCHANGED <<registry, typeAttrs, attached, calls, failed, guardVars>>

\* The record of one evaluation of request.fixtures.<n>; ok is the factory's
\* own outcome (it returns or raises), used only when the factory is called.
AccessResult(r, n, ok) ==
    LET cache == DictCacheDescriptor_get(typeAttrs, r)
        res == get_resolver_args_and_kwargs(r)
        f == Fixtures_get(registry, n, None)
        base == [NoOp EXCEPT !.op = "access", !.r = r, !.n = n,
                             !.registered = (registry[n] # None)]
    IN  IF cache[n] # Absent
        THEN [base EXCEPT !.outcome = "value", !.hit = TRUE, !.value = cache[n]]
        ELSE IF ~res.ok
        THEN [base EXCEPT !.outcome = "Resolver404", !.resolved = TRUE]
        ELSE IF f = None
        THEN [base EXCEPT !.outcome = "TypeError", !.resolved = TRUE]
        ELSE IF ~ok
        THEN [base EXCEPT !.outcome = "FactoryError", !.resolved = TRUE, !.invoked = TRUE]
        ELSE [base EXCEPT !.outcome = "value", !.resolved = TRUE, !.invoked = TRUE,
                          !.value = FactoryValue(f, res, r)]

\* FixtureDescriptor.__get__ followed by FixtureAccessor.__getattr__; calls[r][n]
\* counts the factory invocations for n on behalf of r that returned a value.
FixtureAccessor_getattr(r, n, ok) ==
    LET out == AccessResult(r, n, ok) IN
    /\ r \in attached
    /\ (out.invoked /\ out.outcome = "value") => calls[r][n] < MaxCalls
    /\ lastFix' = out
    /\ calls' = IF out.invoked /\ out.outcome = "value"
                THEN [calls EXCEPT ![r][n] = @ + 1] ELSE calls
    /\ typeAttrs' = IF out.invoked /\ out.outcome = "value"
                    THEN [typeAttrs EXCEPT ![ReqType(r)].cache[n] = out.value]
                    ELSE typeAttrs
    /\ failed' = IF out.outcome \in {"Resolver404", "FactoryError"} THEN <<r, n>>
                 ELSE IF failed = <<r, n>> THEN NoFailure
                 ELSE failed
    /\ UNCHANGED <<registry, attached, guardVars>>

Attach == \E r \in Requests : process_request(r)
Register == \E n \in Names, f \in Factories : register(n, f)
RegistryAttr == \E n \in Names : Fixtures_getattr(n)
RegistryGet == \E n \in Names : get(n, "default")
Access == \E r \in Requests, n \in Names, ok \in BOOLEAN : FixtureAccessor_getattr(r, n, ok)

FixNext == Attach \/ Register \/ RegistryAttr \/ RegistryGet \/ Access

(***************************************************************************)
(* Part 2: predicate combinators and guard decorators                      *)
(***************************************************************************)
Leaves == {"p1", "p2"}
Callables == Leaves \cup {"django_login_required"}
Envs == {e \in [Callables -> BOOLEAN] : ~e["django_login_required"]}
LoginEnvs == {e \in [Callables -> BOOLEAN] : \A l \in Leaves : ~e[l]}

\* Positional argument tuples a dispatcher passes: function views get
\* (request, ...), methods of class-based views get (self, request, ...).
ArgShapes == {<<>>, <<"request">>, <<"request", "a1">>, <<"self", "request">>,
              <<"self", "request", "a1">>, <<"a1">>, <<"a1", "request">>}
KwargShapes == {"", "pk=1"}
\* www_authenticate: not given, the empty string, a challenge
Challenges == {None, "", "Basic"}

\* isinstance(v, HttpRequest)
IsHttpRequest(v) == v = "request"

\* Predicates: leaf callables and the closures or_, and_, not_ return.
Leaf(l) == [op |-> "leaf", name |-> l, kids |-> <<>>]
NoneCond == [op |-> "None", name |-> "", kids |-> <<>>]
or_(conditions) == [op |-> "or", name |-> "", kids |-> conditions]
and_(conditions) == [op |-> "and", name |-> "", kids |-> conditions]
not_(condition) == [op |-> "not", name |-> "", kids |-> <<condition>>]
DEFAULT_AUTHENTICATOR == [op |-> "default", name |-> "django_login_required", kids |-> <<>>]

RECURSIVE Depth(_)
Depth(c) ==
    IF c.kids = <<>> THEN IF c.op \in {"or", "and"} THEN 1 ELSE 0
    ELSE 1 + (CHOOSE d \in {Depth(c.kids[i]) : i \in 1..Len(c.kids)} :
                 \A i \in 1..Len(c.kids) : Depth(c.kids[i]) <= d)

cleaned_args_keeps_first(args) == args

cleaned_args_strips_request(args) ==
    IF args # <<>> /\ IsHttpRequest(args[1]) THEN Tail(args) ELSE args

cleaned_args(args) ==
    IF args # <<>> /\ ~IsHttpRequest(args[1]) THEN Tail(args) ELSE args

Entry(callee, args, kwargs) == [callee |-> callee, args |-> args, kwargs |-> kwargs]

RECURSIVE Call(_, _, _, _)
RECURSIVE any(_, _, _, _)
RECURSIVE all(_, _, _, _)
RECURSIVE any_eager(_, _, _, _)

\* any([...]) over a list built first: every condition is called.
any_eager(conds, args, kwargs, env) ==
    IF conds = <<>> THEN [val |-> FALSE, log |-> <<>>]
    ELSE LET h == Call(Head(conds), args, kwargs, env)
             t == any_eager(Tail(conds), args, kwargs, env)
         IN  [val |-> h.val \/ t.val, log |-> h.log \o t.log]

\* any(condition(*args, **kwargs) for condition in conditions)
any(conds, args, kwargs, env) ==
    IF conds = <<>> THEN [val |-> FALSE, log |-> <<>>]
    ELSE LET h == Call(Head(conds), args, kwargs, env)
         IN  IF h.val THEN [val |-> TRUE, log |-> h.log]
             ELSE LET t == any(Tail(conds), args, kwargs, env)
                  IN  [val |-> t.val, log |-> h.log \o t.log]

\* all(condition(*args, **kwargs) for condition in conditions)
all(conds, args, kwargs, env) ==
    IF conds = <<>> THEN [val |-> TRUE, log |-> <<>>]
    ELSE LET h == Call(Head(conds), args, kwargs, env)
         IN  IF ~h.val THEN [val |-> FALSE, log |-> h.log]
             ELSE LET t == all(Tail(conds), args, kwargs, env)
                  IN  [val |-> t.val, log |-> h.log \o t.log]

or_decorator_all(conds, args, kwargs, env) == all(conds, cleaned_args(args), kwargs, env)

or_decorator_eager(conds, args, kwargs, env) == any_eager(conds, cleaned_args(args), kwargs, env)

or_decorator(conds, args, kwargs, env) == any(conds, cleaned_args(args), kwargs, env)

and_decorator(conds, args, kwargs, env) == all(conds, cleaned_args(args), kwargs, env)

not_decorator(condition, args, kwargs, env) ==
    LET r == Call(condition, cleaned_args(args), kwargs, env)
    IN  [val |-> ~r.val, log |-> r.log]

\* Calling a predicate: a leaf is an external callable whose answer env fixes;
\* DEFAULT_AUTHENTICATOR is `not django_login_required(*args, **kwargs)`, the
\* negation of whatever the framework's function answers.
Call(c, args, kwargs, env) ==
    CASE c.op = "leaf" -> [val |-> env[c.name], log |-> <<Entry(c.name, args, kwargs)>>]
      [] c.op = "default" -> [val |-> ~env[c.name], log |-> <<Entry(c.name, args, kwargs)>>]
      [] c.op = "or" -> or_decorator(c.kids, args, kwargs, env)
      [] c.op = "and" -> and_decorator(c.kids, args, kwargs, env)
      [] c.op = "not" -> not_decorator(c.kids[1], args, kwargs, env)

\* Responses: the class, the status code and the WWW-Authenticate header.
Unauthorized_status_code == 401
Forbidden_status_code == 403
NoHeader == "absent"
NoResponse == [cls |-> "none", status |-> 0, www |-> NoHeader]
ViewResponse == [cls |-> "view", status |-> 200, www |-> "Negotiate"]
CustomResponse == [cls |-> "custom", status |-> 400, www |-> "Digest"]
Unauthorized == [cls |-> "Unauthorized", status |-> Unauthorized_status_code, www |-> NoHeader]
Forbidden == [cls |-> "Forbidden", status |-> Forbidden_status_code, www |-> NoHeader]

unauthorized_response(args, kwargs) == Unauthorized
forbidden_response(args, kwargs) == Forbidden

\* response_factory(*args, **kwargs) for the factories a binding can hold
Build(factory, args, kwargs) ==
    CASE factory = "unauthorized_response" -> unauthorized_response(args, kwargs)
      [] factory = "forbidden_response" -> forbidden_response(args, kwargs)
      [] factory = "custom" -> CustomResponse

authentication_always_header(authenticator, www_authenticate, response_factory, args, kwargs, env) ==
    LET auth == IF authenticator = NoneCond THEN DEFAULT_AUTHENTICATOR ELSE authenticator
        factory == IF response_factory = None THEN "unauthorized_response" ELSE response_factory
        r == Call(auth, cleaned_args(args), kwargs, env)
        resp == Build(factory, args, kwargs)
    IN  IF r.val
        THEN [passed |-> TRUE, response |-> [ViewResponse EXCEPT !.www = www_authenticate],
              log |-> r.log \o <<Entry("view", args, kwargs)>>]
        ELSE [passed |-> FALSE, response |-> [resp EXCEPT !.www = www_authenticate],
              log |-> r.log \o <<Entry("response_factory", args, kwargs)>>]

\* authentication(...).decorator(*args, **kwargs)
authentication(authenticator, www_authenticate, response_factory, args, kwargs, env) ==
    LET auth == IF authenticator = NoneCond THEN DEFAULT_AUTHENTICATOR ELSE authenticator
        factory == IF response_factory = None THEN "unauthorized_response" ELSE response_factory
        r == Call(auth, cleaned_args(args), kwargs, env)
        resp == Build(factory, args, kwargs)
    IN  IF r.val
        THEN [passed |-> TRUE, response |-> ViewResponse,
              log |-> r.log \o <<Entry("view", args, kwargs)>>]
        ELSE [passed |-> FALSE,
              response |-> IF www_authenticate # None
                           THEN [resp EXCEPT !.www = www_authenticate] ELSE resp,
              log |-> r.log \o <<Entry("response_factory", args, kwargs)>>]

authorization_as_authentication(condition, response_factory, args, kwargs, env) ==
    LET factory == IF response_factory = None THEN "unauthorized_response" ELSE response_factory
        r == Call(condition, cleaned_args(args), kwargs, env)
    IN  IF r.val
        THEN [passed |-> TRUE, response |-> ViewResponse,
              log |-> r.log \o <<Entry("view", args, kwargs)>>]
        ELSE [passed |-> FALSE, response |-> [Build(factory, args, kwargs) EXCEPT !.www = "Basic"],
              log |-> r.log \o <<Entry("response_factory", args, kwargs)>>]

\* authorization(...)(view) called with (*args, **kwargs)
authorization(condition, response_factory, args, kwargs, env) ==
    LET factory == IF response_factory = None THEN "forbidden_response" ELSE response_factory
        r == Call(condition, cleaned_args(args), kwargs, env)
    IN  IF r.val
        THEN [passed |-> TRUE, response |-> ViewResponse,
              log |-> r.log \o <<Entry("view", args, kwargs)>>]
        ELSE [passed |-> FALSE, response |-> Build(factory, args, kwargs),
              log |-> r.log \o <<Entry("response_factory", args, kwargs)>>]

NoCall == [kind |-> "none", cond |-> NoneCond, www |-> None, factory |-> None,
           args |-> <<>>, kwargs |-> "", env |-> [c \in Callables |-> FALSE],
           passed |-> FALSE, response |-> NoResponse, log |-> <<>>]

LeafLists == UNION {[1..k -> {Leaf(l) : l \in Leaves}] : k \in 0..MaxConds}

GuardIdle ==
    /\ cond = Leaf("p1")
    /\ lastCall = NoCall

GuardInit ==
    /\ cond \in {Leaf(l) : l \in Leaves}
    /\ lastCall = NoCall

\* No call is in progress: lastCall holds the call being observed until it
\* returns.
Idle == lastCall = NoCall

\* or_(*conditions) / and_(*conditions) over plain predicates
MakeFlat ==
    /\ Idle
    /\ \E kids \in LeafLists : cond' \in {or_(kids), and_(kids)}
    /\ UNCHANGED <<lastCall, fixVars>>

\* or_ / and_ with the predicate built so far as one of two conditions
Nest ==
    /\ Idle
    /\ Depth(cond) < MaxDepth
    /\ \E l \in Leaves :
          cond' \in {or_(<<cond, Leaf(l)>>), or_(<<Leaf(l), cond>>),
                     and_(<<cond, Leaf(l)>>), and_(<<Leaf(l), cond>>)}
    /\ UNCHANGED <<lastCall, fixVars>>

\* not_(condition)
Negate ==
    /\ Idle
    /\ Depth(cond) < MaxDepth
    /\ cond' = not_(cond)
    /\ UNCHANGED <<lastCall, fixVars>>

\* The predicate called directly: decorator(*args, **kwargs)
CallPredicate ==
    /\ Idle
    /\ \E args \in ArgShapes, kwargs \in KwargShapes, env \in Envs :
          LET r == Call(cond, args, kwargs, env)
          IN  lastCall' = [NoCall EXCEPT !.kind = "predicate", !.cond = cond, !.args = args,
                                         !.kwargs = kwargs, !.env = env,
                                         !.passed = r.val, !.log = r.log]
    /\ UNCHANGED <<cond, fixVars>>

\* A view wrapped by authentication(authenticator=cond, ...) is called
CallAuthentication ==
    /\ Idle
    /\ \E args \in ArgShapes, kwargs \in KwargShapes, env \in Envs,
          www \in Challenges, factory \in {None, "custom"} :
          LET r == authentication(cond, www, factory, args, kwargs, env)
          IN  lastCall' = [NoCall EXCEPT !.kind = "authentication", !.cond = cond, !.www = www,
                                         !.factory = factory, !.args = args,
                                         !.kwargs = kwargs, !.env = env, !.passed = r.passed,
                                         !.response = r.response, !.log = r.log]
    /\ UNCHANGED <<cond, fixVars>>

\* A view wrapped by authentication() with the default authenticator is called
CallAuthenticationDefault ==
    /\ Idle
    /\ \E args \in ArgShapes, kwargs \in KwargShapes, env \in LoginEnvs,
          www \in Challenges, factory \in {None, "custom"} :
          LET r == authentication(NoneCond, www, factory, args, kwargs, env)
          IN  lastCall' = [NoCall EXCEPT !.kind = "authentication", !.cond = NoneCond, !.www = www,
                                         !.factory = factory, !.args = args,
                                         !.kwargs = kwargs, !.env = env, !.passed = r.passed,
                                         !.response = r.response, !.log = r.log]
    /\ UNCHANGED <<cond, fixVars>>

\* A view wrapped by authorization(cond, ...) is called
CallAuthorization ==
    /\ Idle
    /\ \E args \in ArgShapes, kwargs \in KwargShapes, env \in Envs,
          factory \in {None, "custom"} :
          LET r == authorization(cond, factory, args, kwargs, env)
          IN  lastCall' = [NoCall EXCEPT !.kind = "authorization", !.cond = cond,
                                         !.factory = factory, !.args = args,
                                         !.kwargs = kwargs, !.env = env, !.passed = r.passed,
                                         !.response = r.response, !.log = r.log]
    /\ UNCHANGED <<cond, fixVars>>

\* The call returns to its caller
Return ==
    /\ ~Idle
    /\ lastCall' = NoCall
    /\ UNCHANGED <<cond, fixVars>>

CombinatorNext == MakeFlat \/ Nest \/ Negate \/ CallPredicate \/ Return
GuardNext == MakeFlat \/ Nest \/ Negate \/ CallAuthentication \/ CallAuthenticationDefault
                \/ CallAuthorization \/ Return

\* The fixture state stays as constructed while predicates and guards run.
InitGuard == FixInit /\ GuardInit

SpecCombinator == InitGuard /\ [][CombinatorNext]_vars
SpecGuard == InitGuard /\ [][GuardNext]_vars

\* No predicate or guard runs while the fixture operations are explored.
InitFixture == FixInit /\ GuardIdle

SpecFixture == InitFixture /\ [][FixNext]_vars

(***************************************************************************)
(* Claims about the combinators and the guards                             *)
(***************************************************************************)
\* What a predicate means: or_ is "some", and_ is "every", not_ is "not".
RECURSIVE Truth(_, _)
Truth(c, env) ==
    CASE c.op = "leaf" -> env[c.name]
      [] c.op = "default" -> ~env[c.name]
      [] c.op = "or" -> \E i \in 1..Len(c.kids) : Truth(c.kids[i], env)
      [] c.op = "and" -> \A i \in 1..Len(c.kids) : Truth(c.kids[i], env)
      [] c.op = "not" -> ~Truth(c.kids[1], env)

RECURSIVE LeafCount(_)
RECURSIVE LeafCountOfList(_)
LeafCountOfList(cs) == IF cs = <<>> THEN 0 ELSE LeafCount(Head(cs)) + LeafCountOfList(Tail(cs))
LeafCount(c) == IF c.op \in {"leaf", "default"} THEN 1 ELSE LeafCountOfList(c.kids)

IsFlat(c) == c.op \in {"or", "and", "not"} /\ \A i \in 1..Len(c.kids) : c.kids[i].op = "leaf"
CalleesOf(log, who) == {i \in 1..Len(log) : log[i].callee \in who}

\* The authenticator or condition a guard call ran.
Checked(call) == IF call.cond = NoneCond THEN DEFAULT_AUTHENTICATOR ELSE call.cond

\* C5: or_(p1..pn) is true iff some pi is true, and_(p1..pn) iff every pi is
\* true, not_(p) iff p is false; or_() is false and and_() is true.
C5_CombinatorSemantics ==
    lastCall.kind = "predicate" =>
        /\ lastCall.passed = Truth(lastCall.cond, lastCall.env)
        /\ lastCall.cond = or_(<<>>) => ~lastCall.passed
        /\ lastCall.cond = and_(<<>>) => lastCall.passed

C5_Witness ==
    /\ lastCall.kind = "predicate"
    /\ lastCall.cond = or_(<<Leaf("p1"), Leaf("p2")>>)
    /\ ~lastCall.env["p1"] /\ lastCall.env["p2"]
    /\ lastCall.passed

\* The call order a short-circuiting, left-to-right evaluation of a flat
\* or_/and_ produces: the conditions up to and including the first one whose
\* answer decides the result.
Decides(c, i, env) == env[c.kids[i].name] = (c.op = "or")
StopIndex(c, env) ==
    IF \E i \in 1..Len(c.kids) : Decides(c, i, env)
    THEN CHOOSE i \in 1..Len(c.kids) :
            Decides(c, i, env) /\ \A j \in 1..(i - 1) : ~Decides(c, j, env)
    ELSE Len(c.kids)

\* C10: or_ and and_ call their conditions left to right, stop at the first
\* true (or_) or the first false (and_), and call each condition at most once.
C10_ShortCircuit ==
    lastCall.kind = "predicate" =>
        /\ Len(lastCall.log) <= LeafCount(lastCall.cond)
        /\ (IsFlat(lastCall.cond) /\ lastCall.cond.op # "not") =>
              /\ Len(lastCall.log) = StopIndex(lastCall.cond, lastCall.env)
              /\ \A i \in 1..Len(lastCall.log) :
                    lastCall.log[i].callee = lastCall.cond.kids[i].name
        /\ (lastCall.cond.op \in {"or", "and"} /\ lastCall.cond.kids # <<>>
              /\ Truth(lastCall.cond.kids[1], lastCall.env) = (lastCall.cond.op = "or")) =>
              Len(lastCall.log) <= LeafCount(lastCall.cond.kids[1])

C10_Witness ==
    /\ lastCall.kind = "predicate"
    /\ lastCall.cond = or_(<<Leaf("p1"), Leaf("p2")>>)
    /\ lastCall.env["p1"] /\ lastCall.env["p2"]
    /\ Len(lastCall.log) = 1

\* C8 as stated: the combinators drop the first positional argument exactly
\* when it is a request, and forward the arguments unchanged otherwise.
C8_StripsRequest ==
    (lastCall.kind = "predicate" /\ IsFlat(lastCall.cond) /\ lastCall.log # <<>>) =>
        lastCall.log[1].args =
            IF lastCall.args # <<>> /\ IsHttpRequest(lastCall.args[1])
            THEN Tail(lastCall.args) ELSE lastCall.args

\* C8 amended: the combinators drop the first positional argument exactly
\* when there is one and it is not a request; a leading request, and an empty
\* argument list, are forwarded unchanged.
C8_StripsNonRequest ==
    (lastCall.kind = "predicate" /\ IsFlat(lastCall.cond) /\ lastCall.log # <<>>) =>
        lastCall.log[1].args =
            IF lastCall.args # <<>> /\ ~IsHttpRequest(lastCall.args[1])
            THEN Tail(lastCall.args) ELSE lastCall.args

C8_Witness ==
    /\ lastCall.kind = "predicate"
    /\ IsFlat(lastCall.cond)
    /\ lastCall.args = <<"self", "request", "a1">>
    /\ lastCall.log # <<>>
    /\ lastCall.log[1].args = <<"request", "a1">>

\* The two call shapes of a guarded view: (request, a1..an) and
\* (self, request, a1..an); RequestArgs is (request, a1..an) in both.
IsViewShape(args) ==
    \/ args # <<>> /\ IsHttpRequest(args[1])
    \/ Len(args) >= 2 /\ ~IsHttpRequest(args[1]) /\ IsHttpRequest(args[2])
RequestArgs(args) == IF IsHttpRequest(args[1]) THEN args ELSE Tail(args)

\* C9: in both call shapes every leaf predicate of a guard, however deeply it
\* is nested in or_/and_/not_, is called with (request, a1..an) and the same
\* keyword arguments, while the view and the response factory get the original
\* positional arguments.
C9_UniformShapes ==
    (lastCall.kind \in {"authentication", "authorization"} /\ IsViewShape(lastCall.args)) =>
        \A i \in 1..Len(lastCall.log) :
            /\ lastCall.log[i].kwargs = lastCall.kwargs
            /\ lastCall.log[i].args =
                  IF lastCall.log[i].callee \in Callables
                  THEN RequestArgs(lastCall.args) ELSE lastCall.args

C9_Witness ==
    /\ lastCall.kind = "authorization"
    /\ lastCall.args = <<"self", "request", "a1">>
    /\ Depth(lastCall.cond) = MaxDepth
    /\ Len(lastCall.log) >= 3
    /\ lastCall.log[2].args = <<"request", "a1">>
    /\ lastCall.log[Len(lastCall.log)].args = <<"self", "request", "a1">>

\* C3: an authentication guard whose authenticator answers true calls the view
\* exactly once and returns its response untouched, building no failure
\* response; when the authenticator answers false the view is not called and
\* the result is the response factory's response (status 401 by default) with
\* WWW-Authenticate set to www_authenticate exactly when one was supplied.
C3_Authentication ==
    lastCall.kind = "authentication" =>
        LET built == IF lastCall.factory = None
                     THEN [cls |-> "Unauthorized", status |-> 401, www |-> NoHeader]
                     ELSE CustomResponse
        IN  /\ lastCall.passed = Truth(Checked(lastCall), lastCall.env)
            /\ lastCall.passed =>
                  /\ Cardinality(CalleesOf(lastCall.log, {"view"})) = 1
                  /\ CalleesOf(lastCall.log, {"response_factory"}) = {}
                  /\ lastCall.response = ViewResponse
            /\ ~lastCall.passed =>
                  /\ CalleesOf(lastCall.log, {"view"}) = {}
                  /\ Cardinality(CalleesOf(lastCall.log, {"response_factory"})) = 1
                  /\ lastCall.www # None =>
                        lastCall.response = [built EXCEPT !.www = lastCall.www]
                  /\ lastCall.www = None => lastCall.response = built

C3_Witness ==
    /\ lastCall.kind = "authentication"
    /\ ~lastCall.passed
    /\ lastCall.www = "Basic"
    /\ lastCall.factory = None
    /\ lastCall.response.status = 401
    /\ lastCall.response.www = "Basic"

\* C4: an authorization guard whose condition answers true calls the view and
\* returns its response; when the condition answers false the view is not
\* called and the result is exactly the response factory's response (status
\* 403 by default), with no header or other field changed.
C4_Authorization ==
    lastCall.kind = "authorization" =>
        LET built == IF lastCall.factory = None
                     THEN [cls |-> "Forbidden", status |-> 403, www |-> NoHeader]
                     ELSE CustomResponse
        IN  /\ lastCall.passed = Truth(lastCall.cond, lastCall.env)
            /\ lastCall.passed =>
                  /\ Cardinality(CalleesOf(lastCall.log, {"view"})) = 1
                  /\ lastCall.response = ViewResponse
            /\ ~lastCall.passed =>
                  /\ CalleesOf(lastCall.log, {"view"}) = {}
                  /\ lastCall.response = built

C4_Witness ==
    /\ lastCall.kind = "authorization"
    /\ ~lastCall.passed
    /\ lastCall.factory = "custom"
    /\ lastCall.response = CustomResponse


(***************************************************************************)
(* Claims about the fixture cache                                          *)
(***************************************************************************)
CacheOf(r) == DictCacheDescriptor_get(typeAttrs, r)

\* C1: for every request r and fixture name n the factory computes a value at
\* most once on behalf of r, and once r's cache holds a value for n that entry is
\* never recomputed, overwritten or lost by any later operation.
C1_OnceAndKept ==
    [][\A r \in Requests, n \in Names :
          /\ calls'[r][n] <= 1
          /\ (r \in attached /\ CacheOf(r)[n] # Absent)
                => DictCacheDescriptor_get(typeAttrs', r)[n] = CacheOf(r)[n]]_vars

\* C2: a value cached by an access on one request is never visible to another:
\* the cache of r holds n only if r itself accessed n and the factory was
\* invoked on behalf of r, and the value held is the one computed for r.
C2_Isolation ==
    \A r \in Requests, n \in Names :
        (r \in attached /\ CacheOf(r)[n] # Absent)
            => (calls[r][n] >= 1 /\ CacheOf(r)[n].by = r)

\* C6: accessing a name that is not registered fails with the attribute-error
\* kind the registry's own attribute lookup raises, and with no other kind.
C6_UnknownFixture ==
    (lastFix.op = "access" /\ ~lastFix.registered)
        => lastFix.outcome = "AttributeError"

\* C7: a failing access (resolution fails or the factory raises) leaves the
\* cache unchanged, and the next access of the same name on the same request
\* resolves again and invokes the factory again instead of returning a value
\* from the cache.
C7_FailureNotCached ==
    [][/\ (lastFix'.op = "access" /\ lastFix'.outcome \in {"Resolver404", "FactoryError"})
            => typeAttrs' = typeAttrs
       /\ \A r \in Requests, n \in Names :
            (failed = <<r, n>> /\ lastFix'.op = "access" /\ lastFix'.r = r /\ lastFix'.n = n)
                => (/\ ~lastFix'.hit
                    /\ lastFix'.resolved
                    /\ lastFix'.outcome # "Resolver404" => lastFix'.invoked)]_vars

====
